---- MODULE Spec2Model ----
(***************************************************************************)
(* BackgroundEffectsService (libs/media-utils, background-effects) and the *)
(* stream plumbing it builds in getProcessedTrackGeneratorFrom.            *)
(*                                                                         *)
(* One service instance: the engine reference selfieSegmentation, the two  *)
(* per-instance fields timestamp and globalController written by every     *)
(* transform, the blur BehaviorSubject, and one TransformStream per        *)
(* attached raw track.  The segmentation engine is an external black box:  *)
(* a send() either invokes the registered onResults callback and then      *)
(* resolves, or rejects.                                                   *)
(***************************************************************************)
EXTENDS Integers, Sequences, FiniteSets

\* ---------------------------------------------------------------- bounds
MaxSources == 2      \* raw tracks handed to getProcessedTrackGeneratorFrom
MaxFrames == 2       \* frames a raw track delivers
MaxInits == 2        \* init() calls
MaxDestroys == 2     \* destroy() calls
MaxSets == 2         \* setBlurIntensity() calls
MaxBlur == 1         \* largest value handed to setBlurIntensity
MaxPipelineCalls == 1 \* init() and destroy() calls each, while frames flow
NPixels == 3         \* pixels of a frame handed to the solid-colour compositor

\* ------------------------------------------------------ program constants
DefaultBlur == 10    \* new BehaviorSubject(10)
NoEngine == 0        \* selfieSegmentation === undefined
NoController == 0    \* globalController === undefined

Sources == 1..MaxSources
Engines == 1..MaxInits
BlurInputs == (0 - 1)..MaxBlur

VARIABLES
    canvasCtx2,          \* TRUE iff getContext('2d') returned a context
    selfieSegmentation,  \* engine id held by the service, or NoEngine
    timestamp,           \* <<>> (undefined) or <<t>>
    globalController,    \* source whose controller was stored last
    blurIntensitySub,    \* current value of the BehaviorSubject
    blurEmitted,         \* values pushed by blurIntensitySub.next
    setLog,              \* one record per setBlurIntensity call
    engSt,               \* engine id -> "absent" | "loading" | "ready" | "failed" | "closed"
    engOps,              \* engine id -> calls received after its close()
    calls,               \* one record per init()/destroy() call (prev: lastOp
                         \* when it was made; quiet: no destroy() was pending
                         \* then; held, engWas: reference and engine state then)
    lastOp,              \* "none" | "init" | "destroy": the lifecycle method whose
                         \* code ran last (a call, or destroy resuming after close)
    nSources,            \* tracks attached so far
    attachLog,           \* source -> TRUE iff, when it was attached, an earlier
                         \* source existed and flush had ended every earlier one
    trackLive,           \* source -> raw track still live
    stream,              \* source -> "open" | "terminated" | "errored" | "cancelled"
    tpc,                 \* source -> "idle" | "awaitSend" | "awaitSkip"
    sendSt,              \* source -> "none" | "pending" | "delivered"
    frames,              \* source -> one record per frame handed to transform
                         \* (srcClosed: the raw track ended while it was in flight)
    out,                 \* source -> frames enqueued on its controller (src, k:
                         \* the frame composited; n: nSources at that time)
    sinkEnds,            \* source -> controller.terminate() calls
    deadEnqueues,        \* one record per enqueue that hit a controller no longer
                         \* open (error: what the enqueue call threw)
    resets,              \* engine id -> reset() calls received
    solid,               \* <<>> or the last run of the solid-colour onResults:
                         \* [image, mask, output], one entry per pixel
    hostPc,              \* AppComponent.ngOnDestroy: "idle" | "awaitDestroy" | "done" | "threw"
    hostAwait,           \* index in calls of the destroy() ngOnDestroy awaits, or 0
    processedStream,     \* AppComponent.processedStream subject: "open" | "completed"
    cameraState          \* AppComponent.cameraState subject: "open" | "completed"

vars == <<canvasCtx2, selfieSegmentation, timestamp, globalController,
          blurIntensitySub, blurEmitted, setLog, engSt, engOps, calls, lastOp,
          nSources, attachLog, trackLive, stream, tpc, sendSt, frames, out,
          sinkEnds,
          deadEnqueues, resets, solid, hostPc, hostAwait, processedStream,
          cameraState>>

configVars == <<blurIntensitySub, blurEmitted, setLog>>
lifeVars == <<selfieSegmentation, engSt, calls, lastOp>>
hostVars == <<hostPc, hostAwait, processedStream, cameraState>>
streamVars == <<timestamp, globalController, nSources, attachLog, trackLive,
                stream, tpc,
                sendSt, frames, out, sinkEnds, deadEnqueues>>

\* ------------------------------------------------------------- helpers
\* timestamp of the k-th frame of source s: distinct across sources and frames
Timestamp(s, k) == s * (MaxFrames + 1) + k

CountOp(op) == Cardinality({i \in 1..Len(calls) : calls[i].op = op})

\* no destroy() call is waiting for its close() to settle
NoDestroyPending ==
    \A i \in 1..Len(calls) : calls[i].op = "destroy" => calls[i].result # "pending"

NextEngine == Cardinality({e \in Engines : engSt[e] # "absent"}) + 1

\* destroy has closed the engine the service last created, and no init since
BridgeClosed ==
    \/ selfieSegmentation # NoEngine /\ engSt[selfieSegmentation] = "closed"
    \/ selfieSegmentation = NoEngine /\ \E e \in Engines : engSt[e] = "closed"

Init ==
    /\ canvasCtx2 \in BOOLEAN
    /\ selfieSegmentation = NoEngine
    /\ timestamp = <<>>
    /\ globalController = NoController
    /\ blurIntensitySub = DefaultBlur
    /\ blurEmitted = <<>>
    /\ setLog = <<>>
    /\ engSt = [e \in Engines |-> "absent"]
    /\ engOps = [e \in Engines |-> 0]
    /\ calls = <<>>
    /\ lastOp = "none"
    /\ nSources = 0
    /\ attachLog = [s \in Sources |-> FALSE]
    /\ trackLive = [s \in Sources |-> FALSE]
    /\ stream = [s \in Sources |-> "open"]
    /\ tpc = [s \in Sources |-> "idle"]
    /\ sendSt = [s \in Sources |-> "none"]
    /\ frames = [s \in Sources |-> <<>>]
    /\ out = [s \in Sources |-> <<>>]
    /\ sinkEnds = [s \in Sources |-> 0]
    /\ deadEnqueues = <<>>
    /\ resets = [e \in Engines |-> 0]
    /\ solid = <<>>
    /\ hostPc = "idle"
    /\ hostAwait = 0
    /\ processedStream = "open"
    /\ cameraState = "open"

\* ------------------------------------------------- init() / destroy()
\* init() that never takes the 'Already initialized' branch
InitGuardAlways(ss) == TRUE

\* if (!this.selfieSegmentation)
InitGuard(ss) == ss = NoEngine

\* init(assetsPath): constructs and wires an engine and returns its
\* initialize() promise, or rejects with 'Already initialized'
InitCall ==
    /\ CountOp("init") < MaxInits
    /\ lastOp' = "init"
    /\ IF InitGuard(selfieSegmentation)
       THEN /\ selfieSegmentation' = NextEngine
            /\ engSt' = [engSt EXCEPT ![NextEngine] = "loading"]
            /\ calls' = Append(calls, [op |-> "init", prev |-> lastOp, quiet |-> NoDestroyPending,
                   held |-> selfieSegmentation # NoEngine, eng |-> NextEngine,
                   engWas |-> "absent", result |-> "pending"])
       ELSE /\ UNCHANGED <<selfieSegmentation, engSt>>
            /\ calls' = Append(calls, [op |-> "init", prev |-> lastOp, quiet |-> NoDestroyPending,
                   held |-> selfieSegmentation # NoEngine, eng |-> NoEngine,
                   engWas |-> IF selfieSegmentation # NoEngine
                              THEN engSt[selfieSegmentation] ELSE "absent",
                   result |-> "AlreadyInitialized"])
    /\ UNCHANGED <<canvasCtx2, solid, resets, hostVars, engOps, configVars, streamVars>>

\* the engine's initialize() promise settles; init() returned that promise
InitializeSettle(i, ok) ==
    /\ i \in 1..Len(calls)
    /\ calls[i].op = "init"
    /\ calls[i].result = "pending"
    /\ calls' = [calls EXCEPT ![i].result = IF ok THEN "resolved" ELSE "EngineError"]
    /\ engSt' = IF engSt[calls[i].eng] = "loading"
                THEN [engSt EXCEPT ![calls[i].eng] = IF ok THEN "ready" ELSE "failed"]
                ELSE engSt
    /\ UNCHANGED <<canvasCtx2, solid, resets, hostVars, selfieSegmentation, lastOp, engOps, configVars,
                   streamVars>>

\* what destroy() returns once its body has run: return Promise.reject(...)
DestroyResult(held) == "AlreadyDestroyed"

\* destroy() up to its await, as it acts on the service and the engine:
\* calls close() on the held engine, or falls through to the final return
DestroyBody ==
    /\ CountOp("destroy") < MaxDestroys
    /\ lastOp' = "destroy"
    /\ IF selfieSegmentation # NoEngine
       THEN /\ engSt' = [engSt EXCEPT ![selfieSegmentation] = "closed"]
            /\ calls' = Append(calls, [op |-> "destroy", prev |-> lastOp, quiet |-> NoDestroyPending,
                   held |-> TRUE, eng |-> selfieSegmentation,
                   engWas |-> engSt[selfieSegmentation],
                   result |-> "pending"])
       ELSE /\ UNCHANGED engSt
            /\ calls' = Append(calls, [op |-> "destroy", prev |-> lastOp, quiet |-> NoDestroyPending,
                   held |-> FALSE, eng |-> NoEngine, engWas |-> "absent",
                   result |-> DestroyResult(FALSE)])
    /\ UNCHANGED <<selfieSegmentation, engOps>>

\* destroy() called on its own
DestroyCall ==
    /\ DestroyBody
    /\ UNCHANGED <<canvasCtx2, solid, resets, hostVars, configVars, streamVars>>

\* destroy() that returns after the awaited close() without dropping the
\* reference
DestroyResumeKeepsRef(i) ==
    /\ i \in 1..Len(calls)
    /\ calls[i].op = "destroy"
    /\ calls[i].result = "pending"
    /\ lastOp' = "destroy"
    /\ calls' = [calls EXCEPT ![i].result = DestroyResult(TRUE)]
    /\ UNCHANGED <<canvasCtx2, solid, resets, hostVars, selfieSegmentation,
                   engSt, engOps, configVars, streamVars>>

\* destroy() after the awaited close(): drops the reference and returns
DestroyResume(i) ==
    /\ i \in 1..Len(calls)
    /\ calls[i].op = "destroy"
    /\ calls[i].result = "pending"
    /\ selfieSegmentation' = NoEngine
    /\ lastOp' = "destroy"
    /\ calls' = [calls EXCEPT ![i].result = DestroyResult(TRUE)]
    /\ UNCHANGED <<canvasCtx2, solid, resets, hostVars, engSt, engOps, configVars, streamVars>>

\* ------------------------------------------------- host component
\* AppComponent.ngOnDestroy up to its await: stopCam() stops the camera tracks
\* and the live generator track of the current processed stream, then
\* destroy() is called
NgOnDestroy ==
    /\ hostPc = "idle"
    /\ DestroyBody
    /\ trackLive' = [s \in Sources |-> FALSE]
    /\ frames' = [s \in Sources |->
                     IF trackLive[s] /\ tpc[s] # "idle"
                     THEN [frames[s] EXCEPT ![Len(frames[s])].srcClosed = TRUE]
                     ELSE frames[s]]
    /\ stream' = [s \in Sources |->
                     IF s = nSources /\ stream[s] = "open"
                     THEN "cancelled" ELSE stream[s]]
    /\ hostPc' = "awaitDestroy"
    /\ hostAwait' = Len(calls) + 1
    /\ UNCHANGED <<canvasCtx2, solid, resets, processedStream, cameraState,
                   configVars, timestamp, globalController, nSources,
                   attachLog, tpc, sendSt, out, sinkEnds, deadEnqueues>>

\* AppComponent.ngOnDestroy after the awaited destroy(): completes both
\* subjects if the promise resolved, ends with the rejection otherwise
NgOnDestroyResume ==
    /\ hostPc = "awaitDestroy"
    /\ calls[hostAwait].result # "pending"
    /\ IF calls[hostAwait].result = "resolved"
       THEN /\ processedStream' = "completed"
            /\ cameraState' = "completed"
            /\ hostPc' = "done"
       ELSE /\ hostPc' = "threw"
            /\ UNCHANGED <<processedStream, cameraState>>
    /\ UNCHANGED <<canvasCtx2, solid, resets, hostAwait, engOps, configVars,
                   lifeVars, streamVars>>

\* ------------------------------------------------- setBlurIntensity
\* setBlurIntensity that stores the value before it validates it
SetBlurIntensityUnchecked(value) ==
    /\ Len(setLog) < MaxSets
    /\ blurIntensitySub' = value
    /\ blurEmitted' = Append(blurEmitted, value)
    /\ setLog' = Append(setLog, [value |-> value, threw |-> value < 0,
           before |-> blurIntensitySub, emitted |-> Len(blurEmitted)])
    /\ UNCHANGED <<canvasCtx2, solid, resets, hostVars, engOps, lifeVars, streamVars>>

\* setBlurIntensity(value): throws on a negative value, else next(value)
SetBlurIntensity(value) ==
    /\ Len(setLog) < MaxSets
    /\ IF value < 0
       THEN /\ UNCHANGED <<blurIntensitySub, blurEmitted>>
            /\ setLog' = Append(setLog, [value |-> value, threw |-> TRUE,
                   before |-> blurIntensitySub, emitted |-> Len(blurEmitted)])
       ELSE /\ blurIntensitySub' = value
            /\ blurEmitted' = Append(blurEmitted, value)
            /\ setLog' = Append(setLog, [value |-> value, threw |-> FALSE,
                   before |-> blurIntensitySub, emitted |-> Len(blurEmitted)])
    /\ UNCHANGED <<canvasCtx2, solid, resets, hostVars, engOps, lifeVars, streamVars>>

\* ------------------------------------- getProcessedTrackGeneratorFrom
\* getProcessedTrackGeneratorFrom(videoTrack): builds processor, generator and
\* transformer and pipes them.  The caller has stopped the earlier raw track
\* ("Before sending in a new track, you must stop the existing raw video track").
Attach ==
    /\ nSources < MaxSources
    /\ \A s \in 1..nSources : ~trackLive[s]
    /\ nSources' = nSources + 1
    /\ attachLog' = [attachLog EXCEPT ![nSources + 1] =
           nSources > 0 /\ \A s \in 1..nSources : stream[s] = "terminated"]
    /\ trackLive' = [trackLive EXCEPT ![nSources + 1] = TRUE]
    /\ UNCHANGED <<canvasCtx2, solid, resets, hostVars, engOps, configVars, lifeVars, timestamp,
                   globalController, stream, tpc, sendSt, frames, out,
                   sinkEnds, deadEnqueues>>

\* the raw video track is stopped or ends
SourceClose(s) ==
    /\ s \in 1..nSources
    /\ trackLive[s]
    /\ trackLive' = [trackLive EXCEPT ![s] = FALSE]
    /\ frames' = IF tpc[s] # "idle"
                 THEN [frames EXCEPT ![s][Len(frames[s])].srcClosed = TRUE]
                 ELSE frames
    /\ UNCHANGED <<canvasCtx2, solid, resets, hostVars, engOps, configVars, lifeVars, timestamp,
                   globalController, nSources, attachLog, stream, tpc, sendSt,
                   out, sinkEnds, deadEnqueues>>

\* the consumer stops the generator track: the readable side is cancelled
ConsumerStop(s) ==
    /\ s \in 1..nSources
    /\ stream[s] = "open"
    /\ stream' = [stream EXCEPT ![s] = "cancelled"]
    /\ UNCHANGED <<canvasCtx2, solid, resets, hostVars, engOps, configVars, lifeVars, timestamp,
                   globalController, nSources, attachLog, trackLive, tpc, sendSt, frames,
                   out, sinkEnds, deadEnqueues>>

\* a controller stored only while none is stored yet
StoredControllerOnce(s) == IF globalController = NoController THEN s ELSE globalController

\* this.globalController = controller
StoredController(s) == s

\* transform(videoFrame, controller) up to its await: stores timestamp and
\* controller in the instance fields, then send()s to the held engine, if any.
\* The stream hands over one frame at a time.
TransformStart(s) ==
    /\ s \in 1..nSources
    /\ trackLive[s]
    /\ stream[s] = "open"
    /\ tpc[s] = "idle"
    /\ Len(frames[s]) < MaxFrames
    /\ timestamp' = <<Timestamp(s, Len(frames[s]) + 1)>>
    /\ globalController' = StoredController(s)
    /\ frames' = [frames EXCEPT ![s] = Append(@,
           [ts |-> Timestamp(s, Len(frames[s]) + 1),
            eng |-> selfieSegmentation,
            afterClose |-> BridgeClosed,
            status |-> "inflight",
            srcClosed |-> FALSE,
            closes |-> 0,
            results |-> 0])]
    /\ IF selfieSegmentation # NoEngine
       THEN /\ tpc' = [tpc EXCEPT ![s] = "awaitSend"]
            /\ sendSt' = [sendSt EXCEPT ![s] = "pending"]
            /\ engOps' = IF engSt[selfieSegmentation] = "closed"
                         THEN [engOps EXCEPT ![selfieSegmentation] = @ + 1]
                         ELSE engOps
       ELSE /\ tpc' = [tpc EXCEPT ![s] = "awaitSkip"]
            /\ UNCHANGED <<sendSt, engOps>>
    /\ UNCHANGED <<canvasCtx2, solid, resets, hostVars, configVars, lifeVars,
                   nSources, attachLog, trackLive,
                   stream, out, sinkEnds, deadEnqueues>>

\* a blur filter fixed at construction instead of read per frame
CompositeBlurFixed == DefaultBlur

\* canvasCtx2.filter = `blur(${this.blurIntensitySub.getValue()}px)`
CompositeBlur == blurIntensitySub

\* onResults(results), invoked by the engine for the pending send of source s:
\* composites with the current blur value and enqueues on globalController
\* with this.timestamp.  enqueue throws on a controller that is not open.
OnResults(s) ==
    /\ s \in 1..nSources
    /\ tpc[s] = "awaitSend"
    /\ sendSt[s] = "pending"
    /\ engSt[frames[s][Len(frames[s])].eng] \in {"loading", "ready"}
    /\ sendSt' = [sendSt EXCEPT ![s] = "delivered"]
    /\ frames' = [frames EXCEPT ![s][Len(frames[s])].results = @ + 1]
    /\ IF canvasCtx2 /\ globalController # NoController
       THEN IF stream[globalController] = "open"
            THEN /\ out' = [out EXCEPT ![globalController] = Append(@,
                        [src |-> s, k |-> Len(frames[s]), n |-> nSources,
                         ts |-> timestamp,
                         blur |-> CompositeBlur])]
                 /\ UNCHANGED deadEnqueues
            ELSE /\ deadEnqueues' = Append(deadEnqueues,
                        [src |-> s, ctrl |-> globalController,
                         st |-> stream[globalController],
                         error |-> "TypeError"])
                 /\ UNCHANGED out
       ELSE UNCHANGED <<out, deadEnqueues>>
    /\ UNCHANGED <<canvasCtx2, solid, resets, hostVars, engOps, configVars, lifeVars, timestamp,
                   globalController, nSources, attachLog, trackLive, stream, tpc,
                   sinkEnds>>

\* transform without the await: videoFrame.close() runs while the send()
\* is still outstanding
TransformResumeNoAwait(s) ==
    /\ s \in 1..nSources
    /\ tpc[s] \in {"awaitSkip", "awaitSend"}
    /\ frames[s][Len(frames[s])].closes = 0
    /\ frames' = [frames EXCEPT ![s][Len(frames[s])].closes = @ + 1]
    /\ UNCHANGED <<canvasCtx2, solid, resets, hostVars, engOps, configVars,
                   lifeVars, timestamp, globalController, nSources, attachLog,
                   trackLive, stream, tpc, sendSt, out, sinkEnds, deadEnqueues>>

\* transform after its await returned normally: videoFrame.close()
TransformResume(s) ==
    /\ s \in 1..nSources
    /\ \/ tpc[s] = "awaitSkip"
       \/ tpc[s] = "awaitSend" /\ sendSt[s] = "delivered"
    /\ frames' = [frames EXCEPT ![s][Len(frames[s])].closes = @ + 1,
                                ![s][Len(frames[s])].status = "resolved"]
    /\ tpc' = [tpc EXCEPT ![s] = "idle"]
    /\ sendSt' = [sendSt EXCEPT ![s] = "none"]
    /\ UNCHANGED <<canvasCtx2, solid, resets, hostVars, engOps, configVars, lifeVars, timestamp,
                   globalController, nSources, attachLog, trackLive, stream, out,
                   sinkEnds, deadEnqueues>>

\* the awaited send() rejects: the await throws, the rest of transform is
\* skipped and the rejected transform promise errors the stream
TransformThrow(s) ==
    /\ s \in 1..nSources
    /\ tpc[s] = "awaitSend"
    /\ frames' = [frames EXCEPT ![s][Len(frames[s])].status = "rejected"]
    /\ tpc' = [tpc EXCEPT ![s] = "idle"]
    /\ sendSt' = [sendSt EXCEPT ![s] = "none"]
    /\ stream' = [stream EXCEPT ![s] = IF @ = "open" THEN "errored" ELSE @]
    /\ UNCHANGED <<canvasCtx2, solid, resets, hostVars, engOps, configVars, lifeVars, timestamp,
                   globalController, nSources, attachLog, trackLive, out, sinkEnds,
                   deadEnqueues>>

\* flush(controller): runs once the raw track has ended and the last
\* transform has settled; terminates the controller and resets the engine
Flush(s) ==
    /\ s \in 1..nSources
    /\ ~trackLive[s]
    /\ tpc[s] = "idle"
    /\ stream[s] = "open"
    /\ stream' = [stream EXCEPT ![s] = "terminated"]
    /\ sinkEnds' = [sinkEnds EXCEPT ![s] = @ + 1]
    /\ resets' = IF selfieSegmentation # NoEngine
                 THEN [resets EXCEPT ![selfieSegmentation] = @ + 1]
                 ELSE resets
    /\ engOps' = IF selfieSegmentation # NoEngine /\ engSt[selfieSegmentation] = "closed"
                 THEN [engOps EXCEPT ![selfieSegmentation] = @ + 1]
                 ELSE engOps
    /\ UNCHANGED <<canvasCtx2, solid, hostVars, configVars, lifeVars, timestamp,
                   globalController, nSources, attachLog, trackLive, tpc, sendSt, frames,
                   out, deadEnqueues>>

\* ------------------------------------- onResults, solid-colour variant
\* Pixels are [c |-> colour, a |-> 0 or 1]; a canvas is one pixel per position.
Colours == {"red", "green", "blue"}
Images == [1..NPixels -> Colours]
Masks == [1..NPixels -> {0, 1}]

Transparent == [c |-> "none", a |-> 0]

\* results.image: a decoded video frame, every pixel opaque
ImagePixels(image) == [i \in 1..NPixels |-> [c |-> image[i], a |-> 1]]

\* results.segmentationMask: opacity 1 on the subject, 0 elsewhere
MaskPixels(mask) ==
    [i \in 1..NPixels |-> IF mask[i] = 1 THEN [c |-> "mask", a |-> 1] ELSE Transparent]

\* fillStyle = '#00FF00'; fillRect over the whole canvas
FillGreen == [i \in 1..NPixels |-> [c |-> "green", a |-> 1]]

\* clearRect over the whole canvas
ClearRect == [i \in 1..NPixels |-> Transparent]

\* default globalCompositeOperation: the source covers the destination
SourceOver(dst, src) ==
    [i \in 1..NPixels |-> IF src[i].a = 1 THEN src[i] ELSE dst[i]]

\* 'source-in': the source, only where the destination is opaque
SourceIn(dst, src) ==
    [i \in 1..NPixels |->
        IF src[i].a * dst[i].a = 1 THEN [c |-> src[i].c, a |-> 1] ELSE Transparent]

\* the fill drawn with the default operation instead of 'destination-atop'
DestinationAtopUnset(dst, src) == SourceOver(dst, src)

\* 'destination-atop': the destination where the source covers it, the
\* source where the destination is transparent
DestinationAtop(dst, src) ==
    [i \in 1..NPixels |->
        IF src[i].a = 0 THEN Transparent
        ELSE IF dst[i].a = 1 THEN dst[i] ELSE src[i]]

\* new VideoFrame(..., {alpha: 'discard'}): colours only, fully opaque
DiscardAlpha(canvas) ==
    [i \in 1..NPixels |-> IF canvas[i].a = 1 THEN canvas[i].c ELSE "black"]

\* the drawing steps of onResults, in order
SolidComposite(image, mask) ==
    LET drawnMask == SourceOver(ClearRect, MaskPixels(mask))
        subject == SourceIn(drawnMask, ImagePixels(image))
        filled == DestinationAtop(subject, FillGreen)
    IN  DiscardAlpha(filled)

\* onResults(results) of the solid-colour variant: returns at once without
\* a 2d context, else composites and builds the output frame
OnResultsSolid(image, mask) ==
    /\ solid' = [image |-> image, mask |-> mask,
                 output |-> IF canvasCtx2 THEN SolidComposite(image, mask) ELSE <<>>]
    /\ UNCHANGED <<canvasCtx2, resets, hostVars, engOps, configVars, lifeVars,
                   streamVars>>

\* ------------------------------------------------------ specification
Next ==
    \/ InitCall
    \/ \E i \in 1..(MaxInits + MaxDestroys), ok \in BOOLEAN : InitializeSettle(i, ok)
    \/ DestroyCall
    \/ \E i \in 1..(MaxInits + MaxDestroys) : DestroyResume(i)
    \/ \E value \in BlurInputs : SetBlurIntensity(value)
    \/ Attach
    \/ \E s \in Sources : SourceClose(s)
    \/ \E s \in Sources : ConsumerStop(s)
    \/ \E s \in Sources : TransformStart(s)
    \/ \E s \in Sources : OnResults(s)
    \/ \E s \in Sources : TransformResume(s)
    \/ \E s \in Sources : TransformThrow(s)
    \/ \E s \in Sources : Flush(s)
    \/ \E image \in Images, mask \in Masks : OnResultsSolid(image, mask)
    \/ NgOnDestroy
    \/ NgOnDestroyResume

Spec == Init /\ [][Next]_vars

\* the host component: ngOnInit, startCam, stopCam, the frame pipeline,
\* ngOnDestroy
NextHost ==
    \/ CountOp("init") < MaxPipelineCalls /\ InitCall
    \/ \E i \in 1..(MaxInits + MaxDestroys), ok \in BOOLEAN : InitializeSettle(i, ok)
    \/ Attach
    \/ \E s \in Sources : SourceClose(s)
    \/ \E s \in Sources : ConsumerStop(s)
    \/ \E s \in Sources : TransformStart(s)
    \/ \E s \in Sources : OnResults(s)
    \/ \E s \in Sources : TransformResume(s)
    \/ \E s \in Sources : TransformThrow(s)
    \/ \E s \in Sources : Flush(s)
    \/ NgOnDestroy
    \/ \E i \in 1..(MaxInits + MaxDestroys) : DestroyResume(i)
    \/ NgOnDestroyResume

SpecHost == Init /\ [][NextHost]_vars

\* one init(), blur changes and the frame pipeline, no destroy()
NextEffects ==
    \/ CountOp("init") < MaxPipelineCalls /\ InitCall
    \/ \E i \in 1..(MaxInits + MaxDestroys), ok \in BOOLEAN : InitializeSettle(i, ok)
    \/ \E value \in BlurInputs : SetBlurIntensity(value)
    \/ Attach
    \/ \E s \in Sources : SourceClose(s)
    \/ \E s \in Sources : TransformStart(s)
    \/ \E s \in Sources : OnResults(s)
    \/ \E s \in Sources : TransformResume(s)
    \/ \E s \in Sources : TransformThrow(s)
    \/ \E s \in Sources : Flush(s)

SpecEffects == Init /\ [][NextEffects]_vars

\* the solid-colour compositor alone, over every frame and binary mask
NextCompositor == \E image \in Images, mask \in Masks : OnResultsSolid(image, mask)

SpecCompositor == Init /\ [][NextCompositor]_vars

\* the host-facing calls alone, no raw track attached
NextApi ==
    \/ InitCall
    \/ \E i \in 1..(MaxInits + MaxDestroys), ok \in BOOLEAN : InitializeSettle(i, ok)
    \/ DestroyCall
    \/ \E i \in 1..(MaxInits + MaxDestroys) : DestroyResume(i)
    \/ \E value \in BlurInputs : SetBlurIntensity(value)

SpecApi == Init /\ [][NextApi]_vars

\* the frame pipeline with at most MaxPipelineCalls init() and destroy()
\* calls each around it, blur intensity left at its default
NextPipeline ==
    \/ CountOp("init") < MaxPipelineCalls /\ InitCall
    \/ \E i \in 1..(MaxInits + MaxDestroys), ok \in BOOLEAN : InitializeSettle(i, ok)
    \/ CountOp("destroy") < MaxPipelineCalls /\ DestroyCall
    \/ \E i \in 1..(MaxInits + MaxDestroys) : DestroyResume(i)
    \/ Attach
    \/ \E s \in Sources : SourceClose(s)
    \/ \E s \in Sources : ConsumerStop(s)
    \/ \E s \in Sources : TransformStart(s)
    \/ \E s \in Sources : OnResults(s)
    \/ \E s \in Sources : TransformResume(s)
    \/ \E s \in Sources : TransformThrow(s)
    \/ \E s \in Sources : Flush(s)

SpecPipeline == Init /\ [][NextPipeline]_vars

\* ------------------------------------------------------------- claims
FrameIds == {<<s, k>> \in Sources \X (1..MaxFrames) : k <= Len(frames[s])}

Frame(id) == frames[id[1]][id[2]]

\* output frames produced from the result of frame id, on any sink
OutputsOf(id) ==
    {<<c, j>> \in Sources \X (1..(MaxSources * MaxFrames)) :
        j <= Len(out[c]) /\ out[c][j].src = id[1] /\ out[c][j].k = id[2]}

\* C1: every frame handed to transform is closed exactly once: never twice,
\* and once its transform has settled (send resolved, send rejected, or no
\* engine held) it has been closed.
C1_ReleasedExactlyOnce ==
    \A id \in FrameIds :
        /\ Frame(id).closes <= 1
        /\ Frame(id).status # "inflight" => Frame(id).closes = 1

\* C2: a source's sink holds at most as many output frames as the source
\* delivered input frames, every output on it was produced from a frame of
\* that source and carries that frame's timestamp, and outputs are in input
\* order.
C2_OutputsFollowInputs ==
    \A s \in Sources :
        /\ Len(out[s]) <= Len(frames[s])
        /\ \A j \in 1..Len(out[s]) :
              /\ out[s][j].src = s
              /\ out[s][j].ts = <<Frame(<<out[s][j].src, out[s][j].k>>).ts>>
        /\ \A i, j \in 1..Len(out[s]) : i < j => out[s][i].k < out[s][j].k

\* C3: no engine ever has two send() calls outstanding.
C3_AtMostOneInFlight ==
    \A e \in Engines :
        Cardinality({s \in Sources :
            tpc[s] = "awaitSend" /\ frames[s][Len(frames[s])].eng = e}) <= 1

\* C4: an init() made after an init() with no destroy() in between (neither
\* a destroy() call nor the completion of a pending one) is rejected
\* 'Already initialized' and creates no engine; a destroy() made after a
\* destroy() with no init() call in between ends rejected 'Already destroyed'.
C4_DoubleCallFails ==
    /\ \A i \in 1..Len(calls) :
          /\ calls[i].op = "init" /\ calls[i].prev = "init"
                => calls[i].result = "AlreadyInitialized" /\ calls[i].eng = NoEngine
          /\ calls[i].op = "destroy" /\ calls[i].prev = "destroy"
                => calls[i].result \in {"pending", "AlreadyDestroyed"}
    /\ Cardinality({e \in Engines : engSt[e] # "absent"})
          <= Cardinality({i \in 1..Len(calls) :
                 calls[i].op = "init" /\ calls[i].prev # "init"})

\* C4 witness: both double calls have happened and the second destroy settled
C4_Witness ==
    /\ \E i \in 1..Len(calls) :
          calls[i].op = "init" /\ calls[i].prev = "init"
          /\ calls[i].result = "AlreadyInitialized"
    /\ \E i \in 1..Len(calls) :
          calls[i].op = "destroy" /\ calls[i].prev = "destroy"
          /\ calls[i].result = "AlreadyDestroyed"

\* C5: a destroy() called while the held engine is initialized resolves;
\* a destroy() called with no engine held is rejected 'Already destroyed'.
C5_DestroyResolves ==
    \A i \in 1..Len(calls) :
        calls[i].op = "destroy" /\ calls[i].result # "pending"
            => /\ calls[i].engWas = "ready" => calls[i].result = "resolved"
               /\ ~calls[i].held => calls[i].result = "AlreadyDestroyed"

\* state right after the i-th setBlurIntensity call
BlurAfter(i) == IF i < Len(setLog) THEN setLog[i + 1].before ELSE blurIntensitySub

EmittedAfter(i) == IF i < Len(setLog) THEN setLog[i + 1].emitted ELSE Len(blurEmitted)

\* C6: setBlurIntensity with a negative value throws, and the stored value
\* and the number of notifications are the same after the call as before.
C6_NegativeBlurRejected ==
    \A i \in 1..Len(setLog) :
        setLog[i].value < 0
            => /\ setLog[i].threw
               /\ BlurAfter(i) = setLog[i].before
               /\ EmittedAfter(i) = setLog[i].emitted

\* C6 witness: a negative value was refused after an earlier successful set
C6_Witness ==
    \E i \in 1..Len(setLog) :
        /\ setLog[i].value < 0
        /\ setLog[i].threw
        /\ setLog[i].before # DefaultBlur
        /\ blurIntensitySub = setLog[i].before

\* C7: a frame that was in flight when its raw track ended is, once its
\* transform has settled, closed exactly once and has produced at most one
\* output frame, and the source's controller is terminated at most once.
C7_MidFlightClose ==
    \A id \in FrameIds :
        Frame(id).srcClosed /\ Frame(id).status # "inflight"
            => /\ Frame(id).closes = 1
               /\ Cardinality(OutputsOf(id)) <= 1
               /\ sinkEnds[id[1]] <= 1

\* C8: flush never terminates a controller while a frame of that source is
\* in flight, and no result is enqueued on a controller that flush has
\* already terminated.
C8_NoResultAfterTerminate ==
    /\ \A s \in Sources : stream[s] = "terminated" => tpc[s] = "idle"
    /\ \A d \in 1..Len(deadEnqueues) : deadEnqueues[d].st # "terminated"

\* C9: a rejected send() does not stop the pipeline while the engine it was
\* sent to is initialized and not closed: the stream of that source is not
\* errored.
C9_FailureDoesNotStop ==
    \A id \in FrameIds :
        Frame(id).status = "rejected" /\ engSt[Frame(id).eng] = "ready"
            => stream[id[1]] # "errored"

\* C10: a frame handed to transform after destroy() closed the engine never
\* has its transform complete normally: its submission fails.
C10_SubmitAfterDestroyFails ==
    \A id \in FrameIds :
        Frame(id).afterClose => Frame(id).status \in {"inflight", "rejected"}

\* engines that have been created and on which close() was never called
LiveEngines == {e \in Engines : engSt[e] \in {"loading", "ready", "failed"}}

\* C11: at most one engine is created and not yet closed, and the service
\* holds the reference to every such engine.
C11_OneLiveEngineHeld ==
    /\ Cardinality(LiveEngines) <= 1
    /\ \A e \in LiveEngines : selfieSegmentation = e

\* each output pixel is the frame pixel where the mask is 1, green where it is 0
PixelRule ==
    \A i \in 1..NPixels :
        solid.output[i] = IF solid.mask[i] = 1 THEN solid.image[i] ELSE "green"

\* C12 as stated: with a mask of 1 everywhere the output equals the frame and
\* holds no green pixel, with a mask of 0 everywhere it is all green and of
\* the frame's size, and every output pixel follows the pixel rule.
C12_AsStated ==
    solid # <<>> /\ solid.output # <<>>
        => /\ Len(solid.output) = Len(solid.image)
           /\ PixelRule
           /\ (\A i \in 1..NPixels : solid.mask[i] = 1)
                 => /\ solid.output = solid.image
                    /\ \A i \in 1..NPixels : solid.output[i] # "green"
           /\ (\A i \in 1..NPixels : solid.mask[i] = 0)
                 => \A i \in 1..NPixels : solid.output[i] = "green"

\* C12 amended: as stated, except that with a mask of 1 everywhere the output
\* equals the frame, green only where the frame itself is green.
C12_SolidComposite ==
    solid # <<>> /\ solid.output # <<>>
        => /\ Len(solid.output) = Len(solid.image)
           /\ PixelRule
           /\ (\A i \in 1..NPixels : solid.mask[i] = 1)
                 => solid.output = solid.image
           /\ (\A i \in 1..NPixels : solid.mask[i] = 0)
                 => \A i \in 1..NPixels : solid.output[i] = "green"

\* C12 witness: a composite of a mixed mask over a frame with no green pixel
C12_Witness ==
    /\ solid # <<>>
    /\ solid.output # <<>>
    /\ \E i, j \in 1..NPixels : solid.mask[i] = 1 /\ solid.mask[j] = 0
    /\ \A i \in 1..NPixels : solid.image[i] # "green"

\* C13: every step leaves the frames already enqueued as they are, and a
\* frame enqueued by the step carries the blur intensity current at that step.
C13_BlurNotRetroactive ==
    [][\A s \in Sources :
          /\ Len(out'[s]) >= Len(out[s])
          /\ SubSeq(out'[s], 1, Len(out[s])) = out[s]
          /\ Len(out'[s]) > Len(out[s])
                => out'[s][Len(out'[s])].blur = blurIntensitySub]_vars

\* C13 witness: a sink holds a frame composited before a blur change and a
\* frame composited after it
C13_Witness ==
    \E s \in Sources :
        /\ Len(out[s]) >= 2
        /\ out[s][1].blur = DefaultBlur
        /\ out[s][2].blur # DefaultBlur
        /\ out[s][2].blur = blurIntensitySub

\* C14: a result that arrives for a sink already terminated (consumer
\* stopped, flush ran, or stream errored) is dropped without an error: the
\* enqueue attempt throws nothing.  (Nothing is ever appended to a sink that
\* is not open.)
C14_DeadSinkDropsSilently ==
    \A d \in 1..Len(deadEnqueues) : deadEnqueues[d].error = "none"

\* outputs made from frames of a source attached after flush had ended the
\* earlier sources never reach an earlier source's controller, and reach its
\* own controller while it is the newest source
ReuseOk ==
    \A t \in Sources :
        attachLog[t]
            => /\ \A c \in Sources : \A j \in 1..Len(out[c]) :
                     out[c][j].src = t
                         => c >= t /\ (out[c][j].n = t => c = t)
               /\ \A d \in 1..Len(deadEnqueues) :
                     deadEnqueues[d].src = t => deadEnqueues[d].ctrl >= t

C16_ReleaseAfterSend ==
    /\ \A id \in FrameIds : Frame(id).closes >= 1 => Frame(id).status = "resolved"
    /\ \A s \in Sources :
          sendSt[s] \in {"pending", "delivered"}
              => frames[s][Len(frames[s])].closes = 0

\* C16 witness: a frame was sent, composited into an output frame and then
\* closed
C16_Witness ==
    \E id \in FrameIds :
        /\ Frame(id).eng # NoEngine
        /\ Frame(id).results = 1
        /\ Frame(id).closes = 1
        /\ OutputsOf(id) # {}

\* the setBlurIntensity calls that did not throw, in call order
SuccessfulSets == SelectSeq(setLog, LAMBDA r : ~r.threw)

\* C17: the stored blur intensity is DefaultBlur (10) until the first
\* successful set, is never negative, and is the value of the most recent
\* successful set; the notifications are exactly the successful sets.
C17_BlurNonNegative ==
    /\ blurIntensitySub >= 0
    /\ Len(blurEmitted) = Len(SuccessfulSets)
    /\ \A i \in 1..Len(blurEmitted) :
          blurEmitted[i] >= 0 /\ blurEmitted[i] = SuccessfulSets[i].value
    /\ blurIntensitySub = IF blurEmitted = <<>> THEN DefaultBlur
                          ELSE blurEmitted[Len(blurEmitted)]

\* C17 witness: two successful sets of different values, the later one stored
C17_Witness ==
    /\ Len(blurEmitted) >= 2
    /\ blurEmitted[1] # blurEmitted[2]
    /\ blurIntensitySub = blurEmitted[Len(blurEmitted)]
    /\ blurIntensitySub # DefaultBlur

\* C18: no engine receives a send() or a reset() after destroy() has called
\* close() on it.
C18_NoUseAfterClose ==
    \A e \in Engines : engOps[e] = 0

\* C19: an init() is rejected 'Already initialized' exactly when a reference
\* is held at the call (whatever the state of that engine); otherwise it
\* creates an engine no earlier init() created; and an init() made after a
\* destroy(), with no destroy() still pending, finds no reference held.
C19_ReinitAfterDestroy ==
    \A i \in 1..Len(calls) :
        calls[i].op = "init"
            => /\ calls[i].result = "AlreadyInitialized" <=> calls[i].held
               /\ ~calls[i].held
                     => /\ calls[i].eng # NoEngine
                        /\ \A j \in 1..(i - 1) :
                              calls[j].op = "init" => calls[j].eng # calls[i].eng
               /\ calls[i].prev = "destroy" /\ calls[i].quiet => ~calls[i].held

\* C19 witness: init, a destroy that closed the engine and completed, then an
\* init that created a second engine
C19_Witness ==
    \E i \in 1..Len(calls) :
        /\ calls[i].op = "init"
        /\ calls[i].prev = "destroy"
        /\ calls[i].quiet
        /\ calls[i].eng # NoEngine
        /\ calls[i].result # "AlreadyInitialized"
        /\ \E j \in 1..(i - 1) :
              /\ calls[j].op = "destroy"
              /\ calls[j].held
              /\ calls[j].result = "AlreadyDestroyed"
              /\ calls[j].eng # calls[i].eng

\* C20: an ngOnDestroy run while the engine of a successful init is held and
\* ready ends by completing the processedStream and cameraState subjects.
C20_NgOnDestroyCompletes ==
    /\ hostPc \in {"done", "threw"}
    /\ calls[hostAwait].engWas = "ready"
    => /\ hostPc = "done"
       /\ processedStream = "completed"
       /\ cameraState = "completed"

====
